---- MODULE Spec2Model ----
(***************************************************************************)
(* Model of the kernel taint query utility (src/src/taintinfo.cpp).        *)
(*                                                                         *)
(* Characters are one-character strings, C strings and std::string are     *)
(* sequences of characters.  A uint64_t is a little-endian sequence of     *)
(* four 16-bit limbs (x[1] least significant), because the model checker's *)
(* integers are narrower than 64 bits; all operators on it work modulo     *)
(* 2^64 as the C++ operators do.                                           *)
(***************************************************************************)
EXTENDS FiniteSets, Integers, Sequences, TLC

(***************************************************************************)
(* Bounds of the model                                                     *)
(***************************************************************************)
\* longest generated query string after "taint="
MaxQueryLen == 3
\* longest generated content of the taint status file
MaxContentLen == 3

(***************************************************************************)
(* Program constants                                                       *)
(***************************************************************************)
BFR_SIZE == 64
SPACER == "."
HEX_CHARS == <<"0", "1", "2", "3", "4", "5", "6", "7",
               "8", "9", "A", "B", "C", "D", "E", "F">>
EXIT_NORM == 0
EXIT_ERR_GENERIC == 1
EXIT_ERR_MEM_ALLOC == 2

\* a null pointer to a description text
nullptr == "<nullptr>"

PRM_LIST == <<"l", "i", "s", "t">>
PRM_FLAGS == <<"t", "a", "i", "n", "t", "=">>
PRM_CURRENT == <<"c", "u", "r", "r", "e", "n", "t">>

TAINT_FLAGS ==
    << [flag_shift |-> 0, level |-> "INFO", flag_off_char |-> "G", flag_on_char |-> "P",
        off_description |-> "Only GPL modules were loaded",
        on_description |-> "Proprietary modules were loaded"],
       [flag_shift |-> 1, level |-> "WARN", flag_off_char |-> SPACER, flag_on_char |-> "F",
        off_description |-> nullptr,
        on_description |-> "Module was force loaded (e.g., insmod -f)"],
       [flag_shift |-> 2, level |-> "WARN", flag_off_char |-> SPACER, flag_on_char |-> "S",
        off_description |-> nullptr,
        on_description |-> "SMP kernel oops on an officially SMP incapable processor"],
       [flag_shift |-> 3, level |-> "ALERT", flag_off_char |-> SPACER, flag_on_char |-> "R",
        off_description |-> nullptr,
        on_description |-> "Module was force unloaded (e.g., rmmod -f)"],
       [flag_shift |-> 4, level |-> "ALERT", flag_off_char |-> SPACER, flag_on_char |-> "M",
        off_description |-> nullptr,
        on_description |-> "Processor reported a Machine Check Exception (hardware error)"],
       [flag_shift |-> 5, level |-> "ALERT", flag_off_char |-> SPACER, flag_on_char |-> "B",
        off_description |-> nullptr,
        on_description |-> "Bad memory page referenced, or unexpected page flags encountered (possible hardware error)"],
       [flag_shift |-> 6, level |-> "WARN", flag_off_char |-> SPACER, flag_on_char |-> "U",
        off_description |-> nullptr,
        on_description |-> "Taint requested by a userspace application"],
       [flag_shift |-> 7, level |-> "ALERT", flag_off_char |-> SPACER, flag_on_char |-> "D",
        off_description |-> nullptr,
        on_description |-> "Kernel OOPS or BUG triggered taint"],
       [flag_shift |-> 8, level |-> "WARN", flag_off_char |-> SPACER, flag_on_char |-> "A",
        off_description |-> nullptr,
        on_description |-> "ACPI Differentiated System Description Table overriden by user"],
       [flag_shift |-> 9, level |-> "WARN", flag_off_char |-> SPACER, flag_on_char |-> "W",
        off_description |-> nullptr,
        on_description |-> "Kernel warning triggered taint"],
       [flag_shift |-> 10, level |-> "WARN", flag_off_char |-> SPACER, flag_on_char |-> "C",
        off_description |-> nullptr,
        on_description |-> "Module from drivers/staging was loaded"],
       [flag_shift |-> 11, level |-> "WARN", flag_off_char |-> SPACER, flag_on_char |-> "I",
        off_description |-> nullptr,
        on_description |-> "Workaround for a bug in platform firmware was applied"],
       [flag_shift |-> 12, level |-> "INFO", flag_off_char |-> SPACER, flag_on_char |-> "O",
        off_description |-> nullptr,
        on_description |-> "Externally-built (out-of-tree) module was loaded"],
       [flag_shift |-> 13, level |-> "INFO", flag_off_char |-> SPACER, flag_on_char |-> "E",
        off_description |-> nullptr,
        on_description |-> "Unsigned module was loaded"],
       [flag_shift |-> 14, level |-> "ALERT", flag_off_char |-> SPACER, flag_on_char |-> "L",
        off_description |-> nullptr,
        on_description |-> "Soft lockup occurred"],
       [flag_shift |-> 15, level |-> "WARN", flag_off_char |-> SPACER, flag_on_char |-> "K",
        off_description |-> nullptr,
        on_description |-> "Kernel was live-patched"],
       [flag_shift |-> 16, level |-> "WARN", flag_off_char |-> SPACER, flag_on_char |-> "X",
        off_description |-> nullptr,
        on_description |-> "Auxiliary taint (depending on Linux distribution)"],
       [flag_shift |-> 17, level |-> "INFO", flag_off_char |-> SPACER, flag_on_char |-> "T",
        off_description |-> nullptr,
        on_description |-> "Kernel was built with the struct randomization plugin"] >>

TAINT_FLAGS_ENTRIES == Len(TAINT_FLAGS)

\* array indices of TAINT_FLAGS as the code counts them (from 0)
EntryIdx == 0 .. (TAINT_FLAGS_ENTRIES - 1)

\* TAINT_FLAGS[idx] with the code's 0-based index
Entry(idx) == TAINT_FLAGS[idx + 1]

(***************************************************************************)
(* uint64_t arithmetic                                                     *)
(***************************************************************************)
\* static_cast<uint64_t> (n) for a non-negative n below 2^31
U64(n) == <<n % 65536, n \div 65536, 0, 0>>

\* limb k of x, zero outside the 64 bits
Limb(x, k) == IF k \in 1..4 THEN x[k] ELSE 0

\* x << s on uint64_t, 0 <= s < 64: bits shifted beyond bit 63 are lost
ShiftLeft(x, s) ==
    LET q == s \div 16
        r == s % 16
        limb(k) == (Limb(x, k - q) % (2 ^ (16 - r))) * (2 ^ r)
                   + Limb(x, k - q - 1) \div (2 ^ (16 - r))
    IN <<limb(1), limb(2), limb(3), limb(4)>>

\* x >> s on uint64_t, 0 <= s < 64
ShiftRight(x, s) ==
    LET q == s \div 16
        r == s % 16
        limb(k) == Limb(x, k + q) \div (2 ^ r)
                   + (Limb(x, k + q + 1) % (2 ^ r)) * (2 ^ (16 - r))
    IN <<limb(1), limb(2), limb(3), limb(4)>>

RECURSIVE OrLimb(_, _)
\* a | b on one limb
OrLimb(a, b) ==
    IF a = 0 THEN b
    ELSE IF b = 0 THEN a
    ELSE (IF a % 2 = 1 \/ b % 2 = 1 THEN 1 ELSE 0) + 2 * OrLimb(a \div 2, b \div 2)

RECURSIVE AndLimb(_, _)
\* a & b on one limb
AndLimb(a, b) ==
    IF a = 0 \/ b = 0 THEN 0
    ELSE (IF a % 2 = 1 /\ b % 2 = 1 THEN 1 ELSE 0) + 2 * AndLimb(a \div 2, b \div 2)

\* x | y
BitOr(x, y) ==
    <<OrLimb(x[1], y[1]), OrLimb(x[2], y[2]), OrLimb(x[3], y[3]), OrLimb(x[4], y[4])>>

\* x & y
BitAnd(x, y) ==
    <<AndLimb(x[1], y[1]), AndLimb(x[2], y[2]), AndLimb(x[3], y[3]), AndLimb(x[4], y[4])>>

\* static_cast<uint8_t> (x)
CastUInt8(x) == x[1] % 256

RECURSIVE DivLimbs(_, _, _, _)
\* long division of x by 10 from the most significant limb down:
\* <<quotient, remainder>>
DivLimbs(x, k, rem, quot) ==
    IF k = 0 THEN <<quot, rem>>
    ELSE LET cur == rem * 65536 + x[k]
         IN DivLimbs(x, k - 1, cur % 10, [quot EXCEPT ![k] = cur \div 10])

RECURSIVE DecimalDigits(_, _)
DecimalDigits(x, acc) ==
    LET qr == DivLimbs(x, 4, 0, U64(0))
        digits == <<HEX_CHARS[qr[2] + 1]>> \o acc
    IN IF qr[1] = U64(0) THEN digits ELSE DecimalDigits(qr[1], digits)

\* std::cout << x for a uint64_t x: its decimal digits, no padding
ToDecimal(x) == DecimalDigits(x, <<>>)

\* static_cast<uint64_t> (1) << flag_shift
get_flag_value(flag_shift) == ShiftLeft(U64(1), flag_shift)

(***************************************************************************)
(* Characters                                                              *)
(***************************************************************************)
LowerCase == <<"a", "b", "c", "d", "e", "f", "g", "h", "i", "j", "k", "l", "m",
               "n", "o", "p", "q", "r", "s", "t", "u", "v", "w", "x", "y", "z">>
UpperCase == <<"A", "B", "C", "D", "E", "F", "G", "H", "I", "J", "K", "L", "M",
               "N", "O", "P", "Q", "R", "S", "T", "U", "V", "W", "X", "Y", "Z">>

\* std::toupper in the "C" locale: only a..z are changed
toupper(c) ==
    IF \E i \in 1..Len(LowerCase) : LowerCase[i] = c
    THEN UpperCase[CHOOSE i \in 1..Len(LowerCase) : LowerCase[i] = c]
    ELSE c

\* the flag character taint_query compares: the upper-cased input character
query_flag_char(query_input, query_idx) == toupper(query_input[query_idx + 1])

(***************************************************************************)
(* Output: one record per line written to std::cout or message written to  *)
(* std::cerr.  Colour escapes are kept as the name of the format constant. *)
(***************************************************************************)
F_INFO == "F_INFO"
F_WARN == "F_WARN"
F_ALERT == "F_ALERT"

Line(stream, kind) ==
    [stream |-> stream, kind |-> kind, format |-> "", flag |-> "", other |-> "",
     desc |-> "", value |-> <<>>, hex |-> <<>>, summary |-> <<>>]

\* the switch on TAINT_FLAGS[idx].level
level_format(idx) ==
    CASE Entry(idx).level = "INFO" -> F_INFO
      [] Entry(idx).level = "WARN" -> F_WARN
      [] OTHER -> F_ALERT

\* (taint_status & flag_value) == flag_value for entry idx
FlagIsSet(taint_status, idx) ==
    LET flag_value == get_flag_value(Entry(idx).flag_shift)
    IN BitAnd(taint_status, flag_value) = flag_value

(***************************************************************************)
(* print_hex                                                               *)
(***************************************************************************)
RECURSIVE print_hex_loop_LowFirst(_, _, _)
\* print_hex_loop taking the lowest nibble first: "remainder & 0xF", ">>= 4"
print_hex_loop_LowFirst(remainder, counter, printed) ==
    IF counter >= 16 THEN printed
    ELSE LET hex_digit == CastUInt8(remainder) % 16
         IN print_hex_loop_LowFirst(ShiftRight(remainder, 4), counter + 1,
                                    Append(printed, HEX_CHARS[hex_digit + 1]))

RECURSIVE print_hex_loop(_, _, _)
print_hex_loop(remainder, counter, printed) ==
    IF counter >= 16 THEN printed
    ELSE LET hex_digit == CastUInt8(ShiftRight(remainder, 60))
         IN print_hex_loop(ShiftLeft(remainder, 4), counter + 1,
                           Append(printed, HEX_CHARS[hex_digit + 1]))

\* the characters print_hex writes for value
print_hex(value) == print_hex_loop(value, 0, <<>>)

(***************************************************************************)
(* taint_analyze                                                           *)
(***************************************************************************)
\* FlagSummary printing the spacer for every flag that is not set
FlagSummary_SpacerWhenUnset(taint_status) ==
    [i \in 1..TAINT_FLAGS_ENTRIES |->
        LET idx == i - 1
        IN IF FlagIsSet(taint_status, idx)
           THEN <<level_format(idx), Entry(idx).flag_on_char>>
           ELSE <<"", SPACER>>]

\* the flag characters of the "Taint flags:" line, each with its colour
FlagSummary(taint_status) ==
    [i \in 1..TAINT_FLAGS_ENTRIES |->
        LET idx == i - 1
        IN IF FlagIsSet(taint_status, idx)
           THEN <<level_format(idx), Entry(idx).flag_on_char>>
           ELSE <<IF Entry(idx).flag_off_char # SPACER THEN level_format(idx) ELSE "",
                  Entry(idx).flag_off_char>>]

RECURSIVE DetailLines_NoDescriptionTest(_, _)
\* DetailLines printing an unset line without testing for a spacer or a
\* missing description
DetailLines_NoDescriptionTest(taint_status, idx) ==
    IF idx >= TAINT_FLAGS_ENTRIES THEN <<>>
    ELSE LET e == Entry(idx)
             here ==
                 IF FlagIsSet(taint_status, idx)
                 THEN <<[Line("out", "detail_on") EXCEPT
                            !.format = level_format(idx), !.flag = e.flag_on_char,
                            !.desc = e.on_description,
                            !.value = ToDecimal(get_flag_value(e.flag_shift))]>>
                 ELSE <<[Line("out", "detail_off") EXCEPT
                            !.format = F_INFO, !.flag = e.flag_off_char,
                            !.desc = e.off_description,
                            !.value = ToDecimal(get_flag_value(e.flag_shift))]>>
         IN here \o DetailLines_NoDescriptionTest(taint_status, idx + 1)

RECURSIVE DetailLines(_, _)
\* the lines the second loop of taint_analyze prints from entry idx on
DetailLines(taint_status, idx) ==
    IF idx >= TAINT_FLAGS_ENTRIES THEN <<>>
    ELSE LET e == Entry(idx)
             here ==
                 IF FlagIsSet(taint_status, idx)
                 THEN <<[Line("out", "detail_on") EXCEPT
                            !.format = level_format(idx), !.flag = e.flag_on_char,
                            !.desc = e.on_description,
                            !.value = ToDecimal(get_flag_value(e.flag_shift))]>>
                 ELSE IF e.flag_off_char # SPACER /\ e.off_description # nullptr
                 THEN <<[Line("out", "detail_off") EXCEPT
                            !.format = F_INFO, !.flag = e.flag_off_char,
                            !.desc = e.off_description,
                            !.value = ToDecimal(get_flag_value(e.flag_shift))]>>
                 ELSE <<>>
         IN here \o DetailLines(taint_status, idx + 1)

\* taint_analyze printing "(Kernel is not tainted)" when no flag of the table
\* is set, in place of "taint_status == 0"
taint_analyze_NoKnownFlag(taint_status) ==
    << [Line("out", "flags") EXCEPT !.summary = FlagSummary(taint_status)],
       [Line("out", "numeric") EXCEPT !.value = ToDecimal(taint_status),
                                      !.hex = print_hex(taint_status)],
       Line("out", "blank") >>
    \o DetailLines(taint_status, 0)
    \o (IF \A idx \in EntryIdx : ~FlagIsSet(taint_status, idx)
        THEN <<Line("out", "not_tainted")>> ELSE <<>>)
    \o <<Line("out", "blank")>>

\* everything taint_analyze prints
taint_analyze(taint_status) ==
    << [Line("out", "flags") EXCEPT !.summary = FlagSummary(taint_status)],
       [Line("out", "numeric") EXCEPT !.value = ToDecimal(taint_status),
                                      !.hex = print_hex(taint_status)],
       Line("out", "blank") >>
    \o DetailLines(taint_status, 0)
    \o (IF taint_status = U64(0) THEN <<Line("out", "not_tainted")>> ELSE <<>>)
    \o <<Line("out", "blank")>>

(***************************************************************************)
(* taint_list                                                              *)
(***************************************************************************)
RECURSIVE ListLines_SetFirst(_)
\* ListLines printing an entry's set line before its unset line
ListLines_SetFirst(idx) ==
    IF idx >= TAINT_FLAGS_ENTRIES THEN <<>>
    ELSE LET e == Entry(idx)
             off == IF e.flag_off_char # SPACER /\ e.off_description # nullptr
                    THEN <<[Line("out", "list_off") EXCEPT
                               !.flag = e.flag_off_char, !.desc = e.off_description,
                               !.value = ToDecimal(get_flag_value(e.flag_shift))]>>
                    ELSE <<>>
             on == <<[Line("out", "list_on") EXCEPT
                         !.flag = e.flag_on_char, !.desc = e.on_description,
                         !.value = ToDecimal(get_flag_value(e.flag_shift))]>>
         IN on \o off \o ListLines_SetFirst(idx + 1)

RECURSIVE ListLines(_)
\* the lines taint_list prints from entry idx on
ListLines(idx) ==
    IF idx >= TAINT_FLAGS_ENTRIES THEN <<>>
    ELSE LET e == Entry(idx)
             off == IF e.flag_off_char # SPACER /\ e.off_description # nullptr
                    THEN <<[Line("out", "list_off") EXCEPT
                               !.flag = e.flag_off_char, !.desc = e.off_description,
                               !.value = ToDecimal(get_flag_value(e.flag_shift))]>>
                    ELSE <<>>
             on == <<[Line("out", "list_on") EXCEPT
                         !.flag = e.flag_on_char, !.desc = e.on_description,
                         !.value = ToDecimal(get_flag_value(e.flag_shift))]>>
         IN off \o on \o ListLines(idx + 1)

\* everything taint_list prints
taint_list == ListLines(0)

\* everything print_syntax prints: four text lines and an empty line
print_syntax == <<Line("out", "syntax"), Line("out", "blank")>>

(***************************************************************************)
(* taint_query, one input character at a time                              *)
(***************************************************************************)
RECURSIVE ScanEntries_Assign(_, _, _)
\* ScanEntries with "taint_status =" in place of "taint_status |="
ScanEntries_Assign(flag_char, entry_idx, taint_status) ==
    IF entry_idx >= TAINT_FLAGS_ENTRIES THEN <<entry_idx, taint_status>>
    ELSE IF flag_char = Entry(entry_idx).flag_on_char
    THEN <<entry_idx, get_flag_value(Entry(entry_idx).flag_shift)>>
    ELSE IF Entry(entry_idx).flag_off_char # SPACER
            /\ flag_char = Entry(entry_idx).flag_off_char
    THEN <<entry_idx, taint_status>>
    ELSE ScanEntries_Assign(flag_char, entry_idx + 1, taint_status)

RECURSIVE ScanEntries(_, _, _)
\* the while loop over the table for one input character:
\* <<entry_idx at the end of the loop, taint_status>>
ScanEntries(flag_char, entry_idx, taint_status) ==
    IF entry_idx >= TAINT_FLAGS_ENTRIES THEN <<entry_idx, taint_status>>
    ELSE IF flag_char = Entry(entry_idx).flag_on_char
    THEN <<entry_idx, BitOr(taint_status, get_flag_value(Entry(entry_idx).flag_shift))>>
    ELSE IF Entry(entry_idx).flag_off_char # SPACER
            /\ flag_char = Entry(entry_idx).flag_off_char
    THEN <<entry_idx, taint_status>>
    ELSE ScanEntries(flag_char, entry_idx + 1, taint_status)

\* UnknownWarning tested with "entry_idx > TAINT_FLAGS_ENTRIES"
UnknownWarning_OffByOne(flag_char, entry_idx) ==
    IF entry_idx > TAINT_FLAGS_ENTRIES
    THEN <<[Line("err", "warn_unknown") EXCEPT !.format = F_WARN, !.flag = flag_char]>>
    ELSE <<>>

\* the warning of the first pass for one input character, if any
UnknownWarning(flag_char, entry_idx) ==
    IF entry_idx >= TAINT_FLAGS_ENTRIES
    THEN <<[Line("err", "warn_unknown") EXCEPT !.format = F_WARN, !.flag = flag_char]>>
    ELSE <<>>

RECURSIVE ConflictWarnings_NoBitTest(_, _, _)
\* ConflictWarnings without the test that the entry's bit is set
ConflictWarnings_NoBitTest(flag_char, entry_idx, taint_status) ==
    IF entry_idx >= TAINT_FLAGS_ENTRIES THEN <<>>
    ELSE LET e == Entry(entry_idx)
             here ==
                 IF e.flag_off_char # SPACER /\ flag_char = e.flag_off_char
                 THEN <<[Line("err", "warn_conflict") EXCEPT
                            !.format = F_WARN, !.flag = e.flag_on_char,
                            !.other = e.flag_off_char],
                        [Line("err", "warn_using") EXCEPT
                            !.format = F_WARN, !.flag = e.flag_on_char]>>
                 ELSE <<>>
         IN here \o ConflictWarnings_NoBitTest(flag_char, entry_idx + 1, taint_status)

RECURSIVE ConflictWarnings(_, _, _)
\* the inner loop of the second pass for one input character: its warnings
ConflictWarnings(flag_char, entry_idx, taint_status) ==
    IF entry_idx >= TAINT_FLAGS_ENTRIES THEN <<>>
    ELSE LET e == Entry(entry_idx)
             here ==
                 IF e.flag_off_char # SPACER
                    /\ flag_char = e.flag_off_char
                    /\ FlagIsSet(taint_status, entry_idx)
                 THEN <<[Line("err", "warn_conflict") EXCEPT
                            !.format = F_WARN, !.flag = e.flag_on_char,
                            !.other = e.flag_off_char],
                        [Line("err", "warn_using") EXCEPT
                            !.format = F_WARN, !.flag = e.flag_on_char]>>
                 ELSE <<>>
         IN here \o ConflictWarnings(flag_char, entry_idx + 1, taint_status)

(***************************************************************************)
(* Strings                                                                 *)
(***************************************************************************)
\* std::string::npos
npos == -1

\* str.find(pattern): the first position (from 0) where pattern occurs, or npos
find(str, pattern) ==
    LET hits == {pos \in 0..(Len(str) - Len(pattern)) :
                    SubSeq(str, pos + 1, pos + Len(pattern)) = pattern}
    IN IF hits = {} THEN npos
       ELSE CHOOSE pos \in hits : \A other \in hits : pos <= other

\* str.substr(pos, count)
substr(str, pos, count) == SubSeq(str, pos + 1, pos + count)

\* the terminating null character of a C string
NUL == "\\0"

RECURSIVE c_str_length_loop(_, _, _)
c_str_length_loop(text, max_length, length) ==
    IF length < max_length /\ text[length + 1] # NUL
    THEN c_str_length_loop(text, max_length, length + 1)
    ELSE length

\* c_str_length(text, max_length)
c_str_length(text, max_length) == c_str_length_loop(text, max_length, 0)

(***************************************************************************)
(* The taint status file and reading it                                    *)
(***************************************************************************)
RECURSIVE Extracted(_, _, _)
\* the characters std::istream::get(bfr, size) extracts: up to size - 1
\* characters, stopping before the first newline
Extracted(content, size, got) ==
    IF Len(got) >= size - 1 \/ Len(got) >= Len(content)
       \/ content[Len(got) + 1] = "\n"
    THEN got
    ELSE Extracted(content, size, Append(got, content[Len(got) + 1]))

\* data_in.get(data_bfr, BFR_SIZE): the buffer (null-terminated) and fail()
istream_get(f, size) ==
    LET got == IF f.io_error THEN <<>> ELSE Extracted(f.content, size, <<>>)
    IN [bfr |-> Append(got, NUL), fail |-> f.io_error \/ Len(got) = 0]

\* thrown by the number parser
NumberFormatException == "NumberFormatException"

RECURSIVE MulAddLimbs(_, _, _, _)
\* x * 10 + carry, limb by limb: <<result, carry out of bit 63>>
MulAddLimbs(x, k, carry, result) ==
    IF k > 4 THEN <<result, carry>>
    ELSE LET cur == x[k] * 10 + carry
         IN MulAddLimbs(x, k + 1, cur \div 65536, [result EXCEPT ![k] = cur % 65536])

RECURSIVE ParseDigits(_, _, _, _)
ParseDigits(text, length, pos, acc) ==
    IF pos >= length THEN acc
    ELSE LET digit == {d \in 0..9 : HEX_CHARS[d + 1] = text[pos + 1]}
         IN IF digit = {} THEN NumberFormatException
            ELSE LET next == MulAddLimbs(acc, 1, CHOOSE d \in digit : TRUE, U64(0))
                 IN IF next[2] # 0 THEN NumberFormatException
                    ELSE ParseDigits(text, length, pos + 1, next[1])

\* dsaext::parse_unsigned_int64_c_str(text, length): the value of the decimal
\* digits, or NumberFormatException if empty, not all digits or above 2^64 - 1
parse_unsigned_int64_c_str(text, length) ==
    IF length = 0 THEN NumberFormatException
    ELSE ParseDigits(text, length, 0, U64(0))

\* taint_load with "rc = true" set before the number is parsed
taint_load_EarlyTrue(f, alloc_fails, taint_status) ==
    LET failed(kind, rc) ==
            [threw |-> "none", rc |-> rc, taint_status |-> taint_status,
             written |-> <<[Line("err", kind) EXCEPT !.format = F_ALERT]>>]
    IN IF ~f.openable THEN failed("alert_open", FALSE)
       ELSE IF alloc_fails
       THEN [threw |-> "bad_alloc", rc |-> FALSE, taint_status |-> taint_status,
             written |-> <<>>]
       ELSE LET got == istream_get(f, BFR_SIZE)
            IN IF got.fail THEN failed("alert_read", FALSE)
               ELSE LET parsed == parse_unsigned_int64_c_str(
                                      got.bfr, c_str_length(got.bfr, BFR_SIZE))
                    IN IF parsed = NumberFormatException THEN failed("alert_parse", TRUE)
                       ELSE [threw |-> "none", rc |-> TRUE, taint_status |-> parsed,
                             written |-> <<>>]

\* taint_load(taint_status): what it throws to its caller, its return value,
\* the caller's variable afterwards and what it writes
taint_load(f, alloc_fails, taint_status) ==
    LET failed(kind) ==
            [threw |-> "none", rc |-> FALSE, taint_status |-> taint_status,
             written |-> <<[Line("err", kind) EXCEPT !.format = F_ALERT]>>]
    IN IF ~f.openable THEN failed("alert_open")
       ELSE IF alloc_fails
       THEN [threw |-> "bad_alloc", rc |-> FALSE, taint_status |-> taint_status,
             written |-> <<>>]
       ELSE LET got == istream_get(f, BFR_SIZE)
            IN IF got.fail THEN failed("alert_read")
               ELSE LET parsed == parse_unsigned_int64_c_str(
                                      got.bfr, c_str_length(got.bfr, BFR_SIZE))
                    IN IF parsed = NumberFormatException THEN failed("alert_parse")
                       ELSE [threw |-> "none", rc |-> TRUE, taint_status |-> parsed,
                             written |-> <<>>]

(***************************************************************************)
(* Inputs                                                                  *)
(***************************************************************************)
\* all sequences over S of length at most n
SeqsUpTo(S, n) == UNION {[1..k -> S] : k \in 0..n}

\* characters of the generated query strings
QueryChars == {"P", "p", "G", "g", "m", "z", "."}

ExampleQueries ==
    { <<"p", "m", "e", "o", "l">>, <<"l", "o", "e", "m", "p">>,
      <<"P", "M", "E", "O", "L">>, <<"G", "G", "g", "p", "Z">>,
      <<"t", "X", "k", "7", " ">> }

Queries == SeqsUpTo(QueryChars, MaxQueryLen) \cup ExampleQueries

\* characters of the generated file contents
ContentChars == {"0", "1", "7", "x", "\n"}

\* 62 zeros
Zeros62 == [i \in 1..62 |-> "0"]

ExampleContents ==
    { <<"4", "0", "9", "6", "\n">>, <<"1", "1", "6", "9", "\n">>,
      <<"2", "8", "6", "8", "9", "\n">>,
      \* all 18 known bits, and the lowest bit without a table entry
      <<"2", "6", "2", "1", "4", "3", "\n">>, <<"2", "6", "2", "1", "4", "4", "\n">>,
      \* 2^64 - 1, 2^64, 2^63
      <<"1", "8", "4", "4", "6", "7", "4", "4", "0", "7",
        "3", "7", "0", "9", "5", "5", "1", "6", "1", "5", "\n">>,
      <<"1", "8", "4", "4", "6", "7", "4", "4", "0", "7",
        "3", "7", "0", "9", "5", "5", "1", "6", "1", "6", "\n">>,
      <<"9", "2", "2", "3", "3", "7", "2", "0", "3", "6",
        "8", "5", "4", "7", "7", "5", "8", "0", "8", "\n">>,
      \* 0x123456789ABCDEF0 and 0xFEDCBA9876543211
      <<"1", "3", "1", "1", "7", "6", "8", "4", "6", "7",
        "4", "6", "3", "7", "9", "0", "3", "2", "0", "\n">>,
      <<"1", "8", "3", "6", "4", "7", "5", "8", "5", "4",
        "4", "4", "9", "3", "2", "5", "8", "9", "9", "3">>,
      \* longer than the buffer: 62 zeros, then 1 and 9
      Zeros62 \o <<"1", "9">> }

Contents == SeqsUpTo(ContentChars, MaxContentLen) \cup ExampleContents

\* the file /proc/sys/kernel/tainted as the program finds it
Files ==
    { [openable |-> FALSE, io_error |-> FALSE, content |-> <<>>],
      [openable |-> TRUE, io_error |-> TRUE, content |-> <<"0", "\n">>] }
    \cup { [openable |-> TRUE, io_error |-> FALSE, content |-> c] : c \in Contents }

DefaultFile == [openable |-> TRUE, io_error |-> FALSE, content |-> <<"0", "\n">>]

Program == <<"t", "a", "i", "n", "t", "i", "n", "f", "o">>

OtherArgs ==
    { <<>>, <<"t", "a", "i", "n", "t">>, <<"l", "i", "s", "t", "s">>,
      <<"L", "i", "s", "t">>, <<"c", "u", "r", "r", "e", "n">>,
      <<"x", "t", "a", "i", "n", "t", "=", "P">>,
      <<"v", "a", "l", "u", "e", "=", "1", "1", "6", "9">> }

Args == {PRM_CURRENT, PRM_LIST} \cup {PRM_FLAGS \o q : q \in Queries} \cup OtherArgs

\* argument vectors: argv[0] is the program name when there is one
Argvs ==
    { <<>>, <<Program>>, <<Program, PRM_LIST, PRM_LIST>>,
      <<Program, PRM_CURRENT, PRM_FLAGS \o <<"P">> >> }
    \cup { <<Program, a>> : a \in Args }

\* the allocation that fails with std::bad_alloc, if it is attempted
AllocFailures == {"none", "cl_param", "data_bfr", "substr"}

(***************************************************************************)
(* The program                                                             *)
(***************************************************************************)
VARIABLES
    argv,          \* the command line
    file,          \* the taint status file
    alloc_failure, \* which allocation fails
    pc,            \* where the program is
    query_input,   \* taint_query's argument
    query_idx,     \* taint_query's loop counter
    taint_status,  \* the taint value of main or of taint_query
    exit_code,     \* main's exit_code
    log            \* what has been written, in order

vars == <<argv, file, alloc_failure, pc, query_input, query_idx, taint_status,
          exit_code, log>>

\* The file is read by "current" runs only; the other runs start with the file
\* of an untainted kernel.  exit_code has the value main gives it before the
\* try block.
Init ==
    /\ argv \in Argvs
    /\ file \in (IF Len(argv) = 2 /\ argv[2] = PRM_CURRENT THEN Files ELSE {DefaultFile})
    /\ alloc_failure \in AllocFailures
    /\ pc = "main"
    /\ query_input = <<>>
    /\ query_idx = 0
    /\ taint_status = U64(0)
    /\ exit_code = EXIT_ERR_GENERIC
    /\ log = <<>>

\* Dispatch accepting "taint=" anywhere in the argument: "find(...) != npos"
Dispatch_FindAnywhere(args, alloc_fails) ==
    IF Len(args) = 2
    THEN IF alloc_fails = "cl_param" THEN [pc |-> "catch", query |-> <<>>]
         ELSE LET cl_param == args[2]
              IN IF cl_param = PRM_CURRENT THEN [pc |-> "load", query |-> <<>>]
                 ELSE IF cl_param = PRM_LIST THEN [pc |-> "list", query |-> <<>>]
                 ELSE IF find(cl_param, PRM_FLAGS) # npos
                 THEN IF alloc_fails = "substr" THEN [pc |-> "catch", query |-> <<>>]
                      ELSE [pc |-> "scan",
                            query |-> substr(cl_param, Len(PRM_FLAGS),
                                             Len(cl_param) - Len(PRM_FLAGS))]
                 ELSE [pc |-> "syntax", query |-> <<>>]
    ELSE [pc |-> "syntax", query |-> <<>>]

\* main up to the call it dispatches to: the next position and the query
Dispatch(args, alloc_fails) ==
    IF Len(args) = 2
    THEN IF alloc_fails = "cl_param" THEN [pc |-> "catch", query |-> <<>>]
         ELSE LET cl_param == args[2]
              IN IF cl_param = PRM_CURRENT THEN [pc |-> "load", query |-> <<>>]
                 ELSE IF cl_param = PRM_LIST THEN [pc |-> "list", query |-> <<>>]
                 ELSE IF find(cl_param, PRM_FLAGS) = 0
                 THEN IF alloc_fails = "substr" THEN [pc |-> "catch", query |-> <<>>]
                      ELSE [pc |-> "scan",
                            query |-> substr(cl_param, Len(PRM_FLAGS),
                                             Len(cl_param) - Len(PRM_FLAGS))]
                 ELSE [pc |-> "syntax", query |-> <<>>]
    ELSE [pc |-> "syntax", query |-> <<>>]

Main ==
    /\ pc = "main"
    /\ pc' = Dispatch(argv, alloc_failure).pc
    /\ query_input' = Dispatch(argv, alloc_failure).query
    /\ UNCHANGED <<argv, file, alloc_failure, query_idx, taint_status, exit_code, log>>

\* main calls taint_load and sets exit_code from its result
TaintLoad ==
    /\ pc = "load"
    /\ LET r == taint_load(file, alloc_failure = "data_bfr", taint_status)
       IN /\ taint_status' = r.taint_status
          /\ log' = log \o r.written
          /\ IF r.threw = "bad_alloc"
             THEN pc' = "catch" /\ UNCHANGED exit_code
             ELSE /\ exit_code' = (IF r.rc THEN EXIT_NORM ELSE EXIT_ERR_GENERIC)
                  /\ pc' = (IF exit_code' = EXIT_NORM THEN "analyze" ELSE "done")
    /\ UNCHANGED <<argv, file, alloc_failure, query_input, query_idx>>

\* main calls taint_analyze after a successful load
CurrentAnalyze ==
    /\ pc = "analyze"
    /\ log' = log \o taint_analyze(taint_status)
    /\ pc' = "done"
    /\ UNCHANGED <<argv, file, alloc_failure, query_input, query_idx, taint_status,
                   exit_code>>

TaintList ==
    /\ pc = "list"
    /\ log' = log \o taint_list
    /\ exit_code' = EXIT_NORM
    /\ pc' = "done"
    /\ UNCHANGED <<argv, file, alloc_failure, query_input, query_idx, taint_status>>

PrintSyntax ==
    /\ pc = "syntax"
    /\ log' = log \o print_syntax
    /\ pc' = "done"
    /\ UNCHANGED <<argv, file, alloc_failure, query_input, query_idx, taint_status,
                   exit_code>>

\* catch (std::bad_alloc&) in main
CatchBadAlloc ==
    /\ pc = "catch"
    /\ exit_code' = EXIT_ERR_MEM_ALLOC
    /\ log' = Append(log, [Line("err", "alert_oom") EXCEPT !.format = F_ALERT])
    /\ pc' = "done"
    /\ UNCHANGED <<argv, file, alloc_failure, query_input, query_idx, taint_status>>

\* one iteration of the first loop of taint_query
QueryScan ==
    /\ pc = "scan"
    /\ query_idx < Len(query_input)
    /\ LET flag_char == query_flag_char(query_input, query_idx)
           scanned == ScanEntries(flag_char, 0, taint_status)
       IN /\ taint_status' = scanned[2]
          /\ log' = log \o UnknownWarning(flag_char, scanned[1])
    /\ query_idx' = query_idx + 1
    /\ UNCHANGED <<argv, file, alloc_failure, pc, query_input, exit_code>>

\* the first loop ends, the second starts
QueryScanEnd ==
    /\ pc = "scan"
    /\ query_idx >= Len(query_input)
    /\ pc' = "conflicts"
    /\ query_idx' = 0
    /\ UNCHANGED <<argv, file, alloc_failure, query_input, taint_status, exit_code, log>>

\* QueryConflicts returning from taint_query after the first conflict warning
QueryConflicts_ReturnOnConflict ==
    /\ pc = "conflicts"
    /\ query_idx < Len(query_input)
    /\ LET warnings == ConflictWarnings(query_flag_char(query_input, query_idx), 0,
                                        taint_status)
       IN /\ log' = log \o warnings
          /\ IF warnings # <<>>
             THEN pc' = "done" /\ exit_code' = EXIT_NORM /\ UNCHANGED query_idx
             ELSE query_idx' = query_idx + 1 /\ UNCHANGED <<pc, exit_code>>
    /\ UNCHANGED <<argv, file, alloc_failure, query_input, taint_status>>

\* one iteration of the outer loop of the second pass of taint_query
QueryConflicts ==
    /\ pc = "conflicts"
    /\ query_idx < Len(query_input)
    /\ log' = log \o ConflictWarnings(query_flag_char(query_input, query_idx), 0,
                                      taint_status)
    /\ query_idx' = query_idx + 1
    /\ UNCHANGED <<argv, file, alloc_failure, pc, query_input, taint_status, exit_code>>

\* the second loop ends: taint_query calls taint_analyze and returns to main
QueryAnalyze ==
    /\ pc = "conflicts"
    /\ query_idx >= Len(query_input)
    /\ log' = log \o taint_analyze(taint_status)
    /\ exit_code' = EXIT_NORM
    /\ pc' = "done"
    /\ UNCHANGED <<argv, file, alloc_failure, query_input, query_idx, taint_status>>

Next ==
    \/ Main
    \/ TaintLoad
    \/ CurrentAnalyze
    \/ TaintList
    \/ PrintSyntax
    \/ CatchBadAlloc
    \/ QueryScan
    \/ QueryScanEnd
    \/ QueryConflicts
    \/ QueryAnalyze

Spec == Init /\ [][Next]_vars

(***************************************************************************)
(* Vocabulary of the properties                                            *)
(***************************************************************************)
\* bit i (0 = least significant) of the uint64_t x
Bit(x, i) == (x[(i \div 16) + 1] \div (2 ^ (i % 16))) % 2

\* str begins with prefix
HasPrefix(str, prefix) ==
    Len(str) >= Len(prefix) /\ SubSeq(str, 1, Len(prefix)) = prefix

\* the lines of the given kinds, in order
OfKind(lines, kinds) ==
    LET Test(l) == l.kind \in kinds IN SelectSeq(lines, Test)

\* the decimal digits of a natural number below 2^31
RECURSIVE NatDigits(_)
NatDigits(n) ==
    IF n < 10 THEN <<HEX_CHARS[n + 1]>>
    ELSE Append(NatDigits(n \div 10), HEX_CHARS[(n % 10) + 1])

\* the run is "taint=<chars>" and no allocation failed
IsQueryRun ==
    /\ Len(argv) = 2
    /\ HasPrefix(argv[2], PRM_FLAGS)
    /\ alloc_failure \notin {"cl_param", "substr"}

\* the characters after "taint="
QueryChars_Given == SubSeq(argv[2], Len(PRM_FLAGS) + 1, Len(argv[2]))

QueryDone == IsQueryRun /\ pc = "done"

\* the upper-cased forms of the first n given characters
UpperOf(chars, n) == {toupper(chars[j]) : j \in 1..n}

\* the value the claim gives to a set of upper-cased characters: bit i is set
\* exactly if some table entry with bit_position i has its set_char in the set
IsValueOf(value, uppers) ==
    \A i \in 0..63 :
        Bit(value, i) = 1 <=>
            \E idx \in EntryIdx :
                Entry(idx).flag_shift = i /\ Entry(idx).flag_on_char \in uppers

(***************************************************************************)
(* C1                                                                      *)
(***************************************************************************)
\* C1: when a "taint=<chars>" run has ended, the accumulated value has exactly
\* the bits of the table entries whose set_char is the upper-cased form of
\* some input character (so it has no bit outside the table and depends
\* neither on case, nor on order, nor on duplicates); the report prints that
\* value; "pmeol" gives 28689 = 0x7011, and "P", "p", "pp" give 1.
C1_QueryValue ==
    QueryDone =>
        LET q == QueryChars_Given
            numeric == OfKind(log, {"numeric"})
        IN /\ IsValueOf(taint_status, UpperOf(q, Len(q)))
           /\ Len(numeric) = 1
           /\ numeric[1].value = ToDecimal(taint_status)
           /\ q = <<"p", "m", "e", "o", "l">> =>
                  /\ taint_status = U64(28689)
                  /\ numeric[1].value = <<"2", "8", "6", "8", "9">>
                  /\ {i \in 0..63 : Bit(taint_status, i) = 1} = {0, 4, 12, 13, 14}
           /\ q \in {<<"P">>, <<"p">>, <<"p", "p">>} =>
                  /\ taint_status = U64(1)
                  /\ numeric[1].value = <<"1">>

C1_Witness ==
    /\ QueryDone
    /\ QueryChars_Given = <<"p", "m", "e", "o", "l">>
    /\ taint_status = U64(28689)

(***************************************************************************)
(* C2                                                                      *)
(***************************************************************************)
\* how many of the given characters have the upper-cased form c
CountUpper(chars, c) == Cardinality({j \in 1..Len(chars) : toupper(chars[j]) = c})

\* the conflict warnings written that name on_char and off_char
ConflictsNaming(on_char, off_char) ==
    LET Test(l) == l.kind = "warn_conflict" /\ l.flag = on_char /\ l.other = off_char
    IN SelectSeq(log, Test)

\* C2: when a "taint=<chars>" run has ended, for every entry with an
\* unset_char: if the query holds (in any case) both its set_char and its
\* unset_char, one conflict warning naming the two is written per input
\* character equal to the unset_char, and the decoded value has the bit set;
\* if the query holds the unset_char and no set_char of the entry, there is no
\* conflict warning, no unknown-flag warning for it, and the bit is clear.
C2_Conflicts ==
    QueryDone =>
        \A idx \in EntryIdx :
            LET e == Entry(idx)
                q == QueryChars_Given
                n_off == CountUpper(q, e.flag_off_char)
                has_on == CountUpper(q, e.flag_on_char) > 0
                flags == OfKind(log, {"flags"})
            IN e.flag_off_char # SPACER /\ n_off > 0 =>
                   /\ Len(flags) = 1
                   /\ Len(OfKind(log, {"warn_conflict"}))
                          = Len(ConflictsNaming(e.flag_on_char, e.flag_off_char))
                   /\ has_on =>
                          /\ Len(ConflictsNaming(e.flag_on_char, e.flag_off_char)) = n_off
                          /\ Bit(taint_status, e.flag_shift) = 1
                          /\ flags[1].summary[idx + 1][2] = e.flag_on_char
                   /\ ~has_on =>
                          /\ OfKind(log, {"warn_conflict"}) = <<>>
                          /\ \A k \in 1..Len(log) :
                                 log[k].kind = "warn_unknown" => log[k].flag # e.flag_off_char
                          /\ Bit(taint_status, e.flag_shift) = 0
                          /\ flags[1].summary[idx + 1][2] = e.flag_off_char

C2_Witness ==
    /\ QueryDone
    /\ QueryChars_Given = <<"g", "P">>
    /\ Len(ConflictsNaming("P", "G")) = 1
    /\ Bit(taint_status, 0) = 1

(***************************************************************************)
(* C3                                                                      *)
(***************************************************************************)
\* the upper-cased character matches no set_char and no present unset_char
IsUnknown(c) ==
    \A idx \in EntryIdx :
        /\ toupper(c) # Entry(idx).flag_on_char
        /\ Entry(idx).flag_off_char = SPACER \/ toupper(c) # Entry(idx).flag_off_char

\* how many of the given characters the first pass has handled
Scanned ==
    IF pc = "scan" THEN query_idx
    ELSE IF pc \in {"conflicts", "done"} THEN Len(QueryChars_Given)
    ELSE 0

\* the characters named by the unknown-flag warnings written so far
UnknownNamed ==
    LET w == OfKind(log, {"warn_unknown"}) IN [k \in 1..Len(w) |-> w[k].flag]

\* the unknown ones among the first n given characters, in input order
UnknownAmong(chars, n, Name(_)) ==
    LET unknown == SelectSeq(SubSeq(chars, 1, n), IsUnknown)
    IN [k \in 1..Len(unknown) |-> Name(unknown[k])]

\* C3 as claimed: at every point of a "taint=<chars>" run the unknown-flag
\* warnings written name, one each and in order, the unknown input characters
\* handled so far as they were given, and the value is the one of the known
\* characters handled so far.
C3_Original ==
    IsQueryRun =>
        LET Same(c) == c
        IN /\ UnknownNamed = UnknownAmong(QueryChars_Given, Scanned, Same)
           /\ IsValueOf(taint_status, UpperOf(QueryChars_Given, Scanned))

\* C3: at every point of a "taint=<chars>" run the unknown-flag warnings
\* written name, one each and in order, the upper-cased forms of the unknown
\* input characters handled so far (the spacer '.' is one of them), and the
\* value is the one of the known characters handled so far: an unknown
\* character changes nothing and the characters after it are still handled.
C3_UnknownUpperCased ==
    IsQueryRun =>
        /\ UnknownNamed = UnknownAmong(QueryChars_Given, Scanned, toupper)
        /\ IsValueOf(taint_status, UpperOf(QueryChars_Given, Scanned))
        /\ IsUnknown(SPACER)

C3_Witness ==
    /\ QueryDone
    /\ QueryChars_Given = <<"z", ".", "P">>
    /\ UnknownNamed = <<"Z", ".">>
    /\ taint_status = U64(1)

(***************************************************************************)
(* Vocabulary of the properties about the report                           *)
(***************************************************************************)
\* the lines written to standard output
Out == LET Test(l) == l.stream = "out" IN SelectSeq(log, Test)

\* the run has ended and taint_analyze has printed the report of taint_status
ReportDone == pc = "done" /\ OfKind(log, {"flags"}) # <<>>

\* v == 0
IsZero(v) == \A i \in 0..63 : Bit(v, i) = 0

\* what a detail or list line says, colour aside
Said(l) == <<l.kind, l.flag, l.desc, l.value>>

SaidBy(lines) == [k \in 1..Len(lines) |-> Said(lines[k])]

\* the detail lines of the report
Details == OfKind(log, {"detail_on", "detail_off"})

\* the table's array indices in table order
TableOrder == [i \in 1..TAINT_FLAGS_ENTRIES |-> i - 1]

\* the entry has an unset_char
HasUnsetChar(idx) == Entry(idx).flag_off_char # SPACER

\* the entry has an unset_description
HasUnsetDescription(idx) == Entry(idx).off_description # nullptr

\* the detail line the claim gives entry idx for the value v
DetailOf(v, idx) ==
    IF Bit(v, Entry(idx).flag_shift) = 1
    THEN <<"detail_on", Entry(idx).flag_on_char, Entry(idx).on_description,
           NatDigits(2 ^ Entry(idx).flag_shift)>>
    ELSE <<"detail_off", Entry(idx).flag_off_char, Entry(idx).off_description,
           NatDigits(2 ^ Entry(idx).flag_shift)>>

\* the details list the claim gives the value v
DetailsOf(v) ==
    LET HasLine(idx) ==
            \/ Bit(v, Entry(idx).flag_shift) = 1
            \/ HasUnsetChar(idx) /\ HasUnsetDescription(idx)
        with_line == SelectSeq(TableOrder, HasLine)
    IN [k \in 1..Len(with_line) |-> DetailOf(v, with_line[k])]

(***************************************************************************)
(* C4                                                                      *)
(***************************************************************************)
\* C4 as claimed: the report of the value 0 has "(Kernel is not tainted)" and
\* no detail line, and a report has "(Kernel is not tainted)" exactly if its
\* value is 0.
C4_Original ==
    ReportDone =>
        /\ OfKind(log, {"not_tainted"}) # <<>> <=> IsZero(taint_status)
        /\ IsZero(taint_status) => Details = <<>>

\* C4: a report has "(Kernel is not tainted)", once, exactly if its value is
\* 0; the report of the value 0 has the message after a details list of
\* exactly one line, the unset line of the entry of bit 0
\* ("- G Only GPL modules were loaded (1 unset)"), and has no set line.
C4_NotTaintedAfterUnsetLine ==
    ReportDone =>
        /\ OfKind(log, {"not_tainted"}) # <<>> <=> IsZero(taint_status)
        /\ Len(OfKind(log, {"not_tainted"})) <= 1
        /\ IsZero(taint_status) =>
               /\ SaidBy(Details)
                      = << <<"detail_off", "G", "Only GPL modules were loaded", <<"1">> >> >>
               /\ [k \in 1..Len(Out) |-> Out[k].kind]
                      = <<"flags", "numeric", "blank", "detail_off", "not_tainted", "blank">>

C4_Witness ==
    /\ ReportDone
    /\ IsZero(taint_status)
    /\ OfKind(log, {"not_tainted"}) # <<>>
    /\ Len(Details) = 1

(***************************************************************************)
(* C5                                                                      *)
(***************************************************************************)
\* C5: the details list of a report holds, in table order and with nothing
\* else, one set line "- {set_char} {set_description} ({2^bit_position})" for
\* each entry whose bit is set in the value and one unset line
\* "- {unset_char} {unset_description} ({2^bit_position} unset)" for each
\* entry whose bit is clear and that has an unset_char and an
\* unset_description; 1169 gives the lines of P(1), M(16), D(128), C(1024)
\* and the value of "pmeol" the lines of P, M, O, E, L as documented.
C5_Details ==
    ReportDone =>
        /\ SaidBy(Details) = DetailsOf(taint_status)
        /\ taint_status = U64(1169) =>
               [k \in 1..Len(Details) |-> <<Details[k].flag, Details[k].value>>]
                   = << <<"P", <<"1">> >>, <<"M", <<"1", "6">> >>,
                        <<"D", <<"1", "2", "8">> >>, <<"C", <<"1", "0", "2", "4">> >> >>
        /\ IsQueryRun /\ QueryChars_Given = <<"p", "m", "e", "o", "l">> =>
               SaidBy(Details)
                   = << <<"detail_on", "P", "Proprietary modules were loaded", <<"1">> >>,
                        <<"detail_on", "M",
                          "Processor reported a Machine Check Exception (hardware error)",
                          <<"1", "6">> >>,
                        <<"detail_on", "O",
                          "Externally-built (out-of-tree) module was loaded",
                          <<"4", "0", "9", "6">> >>,
                        <<"detail_on", "E", "Unsigned module was loaded",
                          <<"8", "1", "9", "2">> >>,
                        <<"detail_on", "L", "Soft lockup occurred",
                          <<"1", "6", "3", "8", "4">> >> >>

C5_Witness ==
    /\ ReportDone
    /\ taint_status = U64(1169)
    /\ Len(Details) = 4

(***************************************************************************)
(* C6                                                                      *)
(***************************************************************************)
\* the flag characters of the summary line of the report, colours aside
SummaryChars ==
    LET summary == OfKind(log, {"flags"})[1].summary
    IN [i \in 1..Len(summary) |-> summary[i][2]]

\* C6: the flag-summary line of a report has one character per table entry,
\* in table order, 18 in all: the entry's set_char if its bit is set in the
\* value, else its unset_char if it has one, else the spacer '.'; bits without
\* a table entry change nothing (262144 = 2^18 has the line of 0).
C6_Summary ==
    ReportDone =>
        /\ Len(OfKind(log, {"flags"})) = 1
        /\ Len(SummaryChars) = TAINT_FLAGS_ENTRIES
        /\ Len(SummaryChars) = 18
        /\ \A idx \in EntryIdx :
               SummaryChars[idx + 1] =
                   IF Bit(taint_status, Entry(idx).flag_shift) = 1
                   THEN Entry(idx).flag_on_char
                   ELSE IF HasUnsetChar(idx) THEN Entry(idx).flag_off_char
                   ELSE "."
        /\ taint_status = U64(262144) =>
               SummaryChars = <<"G", ".", ".", ".", ".", ".", ".", ".", ".",
                                ".", ".", ".", ".", ".", ".", ".", ".", ".">>

C6_Witness ==
    /\ ReportDone
    /\ taint_status = U64(262144)
    /\ SummaryChars[1] = "G"
    /\ Len(SummaryChars) = 18

(***************************************************************************)
(* C7                                                                      *)
(***************************************************************************)
\* nibble k of v counted from the most significant: (v >> (60 - 4k)) mod 16
Nibble(v, k) ==
    Bit(v, 60 - 4 * k) + 2 * Bit(v, 61 - 4 * k)
    + 4 * Bit(v, 62 - 4 * k) + 8 * Bit(v, 63 - 4 * k)

\* the hex digits of the report
HexPrinted == OfKind(log, {"numeric"})[1].hex

\* C7: the hex rendering of a report has exactly 16 characters, the k-th
\* (k = 0..15) being the digit of HEX_CHARS for nibble (v >> (60 - 4k)) mod 16
\* of the whole value printed, bits without a table entry included; 1169
\* renders as 0000000000000491.
C7_Hex ==
    ReportDone =>
        /\ Len(OfKind(log, {"numeric"})) = 1
        /\ Len(HexPrinted) = 16
        /\ \A k \in 0..15 :
               HexPrinted[k + 1]
                   = <<"0", "1", "2", "3", "4", "5", "6", "7",
                       "8", "9", "A", "B", "C", "D", "E", "F">>[Nibble(taint_status, k) + 1]
        /\ taint_status = U64(1169) =>
               HexPrinted = <<"0", "0", "0", "0", "0", "0", "0", "0",
                              "0", "0", "0", "0", "0", "4", "9", "1">>

C7_Witness ==
    /\ ReportDone
    /\ HexPrinted = <<"1", "2", "3", "4", "5", "6", "7", "8",
                      "9", "A", "B", "C", "D", "E", "F", "0">>

(***************************************************************************)
(* Vocabulary of the properties about main and the load                    *)
(***************************************************************************)
\* the run has exactly one argument, and it is arg
OnlyArgument(arg) == Len(argv) = 2 /\ argv[2] = arg

\* an allocation the run attempts fails
AllocationFails ==
    \/ Len(argv) = 2 /\ alloc_failure = "cl_param"
    \/ OnlyArgument(PRM_CURRENT) /\ file.openable /\ alloc_failure = "data_bfr"
    \/ Len(argv) = 2 /\ HasPrefix(argv[2], PRM_FLAGS) /\ alloc_failure = "substr"

\* what is read of the file: its first line, at most BFR_SIZE - 1 characters
TextRead(f) ==
    LET ends == {n \in 0..Len(f.content) :
                    \/ n = Len(f.content)
                    \/ n = BFR_SIZE - 1
                    \/ f.content[n + 1] = "\n"}
        n == CHOOSE m \in ends : \A other \in ends : m <= other
    IN SubSeq(f.content, 1, n)

IsDigit(c) == c \in {"0", "1", "2", "3", "4", "5", "6", "7", "8", "9"}

DigitValue(c) == CHOOSE d \in 0..9 : HEX_CHARS[d + 1] = c

\* 2^64 - 1
MaxUInt64Digits ==
    <<"1", "8", "4", "4", "6", "7", "4", "4", "0", "7",
      "3", "7", "0", "9", "5", "5", "1", "6", "1", "5">>

\* text is a decimal number of at most 2^64 - 1
IsUInt64Decimal(text) ==
    /\ text # <<>>
    /\ \A k \in 1..Len(text) : IsDigit(text[k])
    /\ LET zeros == {n \in 0..Len(text) : \A k \in 1..n : text[k] = "0"}
           lead == CHOOSE n \in zeros : \A other \in zeros : n >= other
           digits == SubSeq(text, lead + 1, Len(text))
       IN \/ Len(digits) < Len(MaxUInt64Digits)
          \/ /\ Len(digits) = Len(MaxUInt64Digits)
             /\ \/ digits = MaxUInt64Digits
                \/ \E k \in 1..Len(digits) :
                       /\ DigitValue(digits[k]) < DigitValue(MaxUInt64Digits[k])
                       /\ \A j \in 1..(k - 1) : digits[j] = MaxUInt64Digits[j]

\* the source value can be loaded and parsed
LoadSucceeds(f) ==
    f.openable /\ ~f.io_error /\ IsUInt64Decimal(TextRead(f))

\* the alert the claim expects for a file that cannot be loaded
AlertFor(f) ==
    IF ~f.openable THEN "alert_open"
    ELSE IF f.io_error \/ TextRead(f) = <<>> THEN "alert_read"
    ELSE "alert_parse"

(***************************************************************************)
(* C8                                                                      *)
(***************************************************************************)
\* the exit status the claim gives the run
ExitStatusOf ==
    IF AllocationFails THEN 2
    ELSE IF OnlyArgument(PRM_CURRENT) THEN (IF LoadSucceeds(file) THEN 0 ELSE 1)
    ELSE IF OnlyArgument(PRM_LIST) THEN 0
    ELSE IF Len(argv) = 2 /\ HasPrefix(argv[2], PRM_FLAGS) THEN 0
    ELSE 1

\* the run is one the claim gives the syntax text to
IsSyntaxRun ==
    /\ ~AllocationFails
    /\ ~OnlyArgument(PRM_CURRENT)
    /\ ~OnlyArgument(PRM_LIST)
    /\ ~(Len(argv) = 2 /\ HasPrefix(argv[2], PRM_FLAGS))

\* C8: when the run has ended, its exit status is 2 if an allocation failed,
\* else with exactly one argument: for "current" 0 if the value was loaded and
\* parsed and 1 if not, for "list" 0, for an argument beginning with "taint="
\* 0; in every other case the syntax text is printed and the status is 1.
\* No other status occurs.
C8_ExitStatus ==
    pc = "done" =>
        /\ exit_code = ExitStatusOf
        /\ exit_code \in {0, 1, 2}
        /\ IsSyntaxRun <=> OfKind(log, {"syntax"}) # <<>>
        /\ IsSyntaxRun => exit_code = 1

C8_Witness ==
    /\ pc = "done"
    /\ OnlyArgument(<<"x", "t", "a", "i", "n", "t", "=", "P">>)
    /\ alloc_failure = "none"
    /\ exit_code = 1
    /\ OfKind(log, {"syntax"}) # <<>>

(***************************************************************************)
(* C9                                                                      *)
(***************************************************************************)
\* C9: in a "current" run in which no allocation fails, nothing is printed to
\* standard output unless the load succeeded; and when the run has ended after
\* a failed load (file not opened, read failed or empty, content no unsigned
\* 64-bit decimal), exactly one alert, the one of the cause, was written to
\* the error stream, nothing of the report was printed, the taint value is
\* still 0 and the exit status is 1; after a successful load the report was
\* printed.
C9_LoadFailure ==
    OnlyArgument(PRM_CURRENT) /\ ~AllocationFails =>
        /\ Out # <<>> => LoadSucceeds(file)
        /\ pc = "done" /\ ~LoadSucceeds(file) =>
               /\ Len(log) = 1
               /\ log[1].stream = "err"
               /\ log[1].kind = AlertFor(file)
               /\ log[1].format = F_ALERT
               /\ IsZero(taint_status)
               /\ exit_code = 1
        /\ pc = "done" /\ LoadSucceeds(file) =>
               /\ ReportDone
               /\ \A k \in 1..Len(log) : log[k].stream = "out"
               /\ exit_code = 0

C9_Witness ==
    /\ pc = "done"
    /\ OnlyArgument(PRM_CURRENT)
    /\ file.openable /\ ~file.io_error
    /\ TextRead(file) = <<"1", "x">>
    /\ Len(log) = 1 /\ log[1].kind = "alert_parse"
    /\ exit_code = 1

(***************************************************************************)
(* C10                                                                     *)
(***************************************************************************)
\* the lines the claim gives the list: for each entry its unset line, if it
\* has an unset_description, and then its set line
ListOf ==
    LET slots == [n \in 1..(2 * TAINT_FLAGS_ENTRIES) |-> n]
        idx_of(n) == (n - 1) \div 2
        IsUnsetSlot(n) == n % 2 = 1
        Present(n) == ~IsUnsetSlot(n) \/ HasUnsetDescription(idx_of(n))
        present == SelectSeq(slots, Present)
        line(n) ==
            IF IsUnsetSlot(n)
            THEN <<"list_off", Entry(idx_of(n)).flag_off_char,
                   Entry(idx_of(n)).off_description,
                   NatDigits(2 ^ Entry(idx_of(n)).flag_shift)>>
            ELSE <<"list_on", Entry(idx_of(n)).flag_on_char,
                   Entry(idx_of(n)).on_description,
                   NatDigits(2 ^ Entry(idx_of(n)).flag_shift)>>
    IN [k \in 1..Len(present) |-> line(present[k])]

\* C10: when a "list" run in which no allocation fails has ended, it has
\* printed, in table order, one set line per table entry and one unset line
\* for each entry with an unset_description (only the entry of bit 0),
\* immediately before that entry's set line: 19 lines, and nothing else.
C10_List ==
    pc = "done" /\ OnlyArgument(PRM_LIST) /\ ~AllocationFails =>
        /\ SaidBy(log) = ListOf
        /\ \A k \in 1..Len(log) : log[k].stream = "out"
        /\ Len(log) = 19
        /\ Len(OfKind(log, {"list_on"})) = TAINT_FLAGS_ENTRIES
        /\ SaidBy(OfKind(log, {"list_off"}))
               = << <<"list_off", "G", "Only GPL modules were loaded", <<"1">> >> >>
        /\ log[1].kind = "list_off" /\ Said(log[2]) =
               <<"list_on", "P", "Proprietary modules were loaded", <<"1">> >>

C10_Witness ==
    /\ pc = "done"
    /\ OnlyArgument(PRM_LIST)
    /\ Len(log) = 19
    /\ log[1].kind = "list_off"

(***************************************************************************)
(* C11                                                                     *)
(***************************************************************************)
\* how many lines of the given kinds the log has
CountOf(lines, kinds) == Len(OfKind(lines, kinds))

ConflictKinds == {"warn_conflict", "warn_using"}

ReportKinds == {"flags", "numeric", "blank", "detail_on", "detail_off", "not_tainted"}

\* the log of a "taint=<chars>" run is in the order of the claim: the
\* unknown-flag warnings, then the conflict warnings, then the report
C11_Order ==
    \A i, j \in 1..Len(log) :
        i < j =>
            /\ log[j].kind = "warn_unknown" => log[i].kind = "warn_unknown"
            /\ log[j].kind \in ConflictKinds => log[i].stream = "err"
            /\ log[i].stream = "out" => log[j].stream = "out"

\* what holds at every point of a "taint=<chars>" run
C11_State ==
    IsQueryRun =>
        /\ C11_Order
        /\ \A k \in 1..Len(log) :
               log[k].kind \in {"warn_unknown"} \cup ConflictKinds \cup ReportKinds
        \* the unknown-flag warnings are those of the characters handled, in order
        /\ UnknownNamed = UnknownAmong(QueryChars_Given, Scanned, toupper)
        \* the value is final when the second pass starts
        /\ pc \in {"conflicts", "done"} =>
               IsValueOf(taint_status, UpperOf(QueryChars_Given, Len(QueryChars_Given)))
        \* no report before the end, exactly one full report at the end
        /\ pc # "done" => CountOf(log, ReportKinds) = 0
        /\ pc = "done" =>
               /\ CountOf(log, {"flags"}) = 1
               /\ CountOf(log, {"numeric"}) = 1
               /\ Out = taint_analyze(taint_status)
               /\ SubSeq(log, Len(log) - Len(Out) + 1, Len(log)) = Out
               /\ CountOf(log, {"warn_conflict"})
                      = Cardinality({j \in 1..Len(QueryChars_Given) :
                            \E idx \in EntryIdx :
                                /\ HasUnsetChar(idx)
                                /\ toupper(QueryChars_Given[j]) = Entry(idx).flag_off_char
                                /\ Bit(taint_status, Entry(idx).flag_shift) = 1})

\* what holds of every step of a "taint=<chars>" run
C11_Step ==
    IsQueryRun =>
        \* unknown-flag warnings are written by the first pass only
        /\ CountOf(log', {"warn_unknown"}) # CountOf(log, {"warn_unknown"}) =>
               pc = "scan" /\ pc' = "scan"
        \* conflict warnings are written by the second pass only
        /\ CountOf(log', ConflictKinds) # CountOf(log, ConflictKinds) =>
               pc = "conflicts"
        \* the second pass and the report do not change the value
        /\ pc = "conflicts" => taint_status' = taint_status
        \* what is written stays written
        /\ Len(log') >= Len(log) /\ SubSeq(log', 1, Len(log)) = log

\* C11: in every "taint=<chars>" run in which no allocation fails, the
\* unknown-flag warnings are written in input order by the first pass; the
\* value is final when the second pass starts and the second pass does not
\* change it; every conflict warning comes after the last unknown-flag
\* warning; and the full report of the value is written exactly once, after
\* all warnings, however many warnings there were.
C11_EventOrder == [](C11_State) /\ [][C11_Step]_vars

C11_Witness ==
    /\ QueryDone
    /\ QueryChars_Given = <<"z", "G", "P">>
    /\ [k \in 1..3 |-> log[k].kind] = <<"warn_unknown", "warn_conflict", "warn_using">>
    /\ SubSeq(log, 4, Len(log)) = taint_analyze(U64(1))

====
